---- MODULE Spec2Model ----
(***************************************************************************)
(* A model of the Genome-Browser: the GFF3 parser (parseAttributes,        *)
(* parseGFF3Line, buildHierarchy, parseGFF3), the track layout             *)
(* (organizeIntoTracks, hasOverlap), the redraw (updateFeatures,           *)
(* renderFeature, renderGene, renderMRNA), the throttled zoom handler, the *)
(* tooltip handlers and the shell's load callback.                         *)
(*                                                                         *)
(* Text is modelled at the level of tokens.  A file is a sequence of       *)
(* lines, a line a sequence of tab-separated columns, a column a sequence  *)
(* of tokens; the separators ";", "=", "%" and "#" are tokens of their     *)
(* own, every other token is a run of ordinary characters.  No token       *)
(* holds white space, so an empty column <<>> is the only column that is   *)
(* white space only.  A feature object is named by its position in the     *)
(* features list (object identity), 0 is null.                             *)
(***************************************************************************)
EXTENDS Integers, Sequences, FiniteSets, TLC

(***************************************************************************)
(* Bounds of the model.                                                    *)
(***************************************************************************)
\* longest body (record lines) of a file of the hierarchy/render family
MaxFeatures == 3
\* longest body of a file of the parse family
MaxBody == 2
\* most comment lines put in front of a body of the parse family
MaxPad == 19
\* width of the drawing area in pixels (dimensions.width minus the margins)
Width == 2
\* most failing lines in a row in a file of the parse family
MaxErrors == 7
\* how many thirds of the throttle interval the clock runs for
MaxTicks == 7
MaxPending == 3

(***************************************************************************)
(* Tokens and columns.                                                     *)
(***************************************************************************)
Col(tok) == <<tok>>
Dot == <<".">>
EmptyCol == <<>>

\* the decimal tokens of the model and their values
NumVal ==
  [t \in {"0", "10", "20", "30", "40", "50", "60", "99010", "100010"} |->
     CASE t = "0" -> 0 [] t = "10" -> 10 [] t = "20" -> 20 [] t = "30" -> 30
       [] t = "40" -> 40 [] t = "50" -> 50 [] t = "60" -> 60
       [] t = "99010" -> 99010 [] t = "100010" -> 100010]

\* the two-digit hexadecimal tokens of the model and the character they encode
HexVal == [t \in {"41", "62"} |-> IF t = "41" THEN "A" ELSE "b"]

\* String.prototype.trim on a line: leading and trailing white space goes,
\* tabs included, so the empty columns at either end go with their tabs.
RECURSIVE DropLeadingEmpty(_)
DropLeadingEmpty(cols) ==
  IF cols = <<>> THEN <<>>
  ELSE IF Head(cols) = EmptyCol THEN DropLeadingEmpty(Tail(cols))
  ELSE cols

RECURSIVE DropTrailingEmpty(_)
DropTrailingEmpty(cols) ==
  IF cols = <<>> THEN <<>>
  ELSE IF cols[Len(cols)] = EmptyCol
       THEN DropTrailingEmpty(SubSeq(cols, 1, Len(cols) - 1))
  ELSE cols

\* line.trim(): <<>> is the empty string
Trim(line) == DropTrailingEmpty(DropLeadingEmpty(line))

\* String.prototype.split(sep) on a token sequence: the runs between the
\* occurrences of sep, in order (one run more than there are separators)
RECURSIVE SplitOn(_, _)
SplitOn(toks, sep) ==
  IF \A i \in 1..Len(toks) : toks[i] # sep THEN <<toks>>
  ELSE LET k == CHOOSE i \in 1..Len(toks) :
                  toks[i] = sep /\ \A j \in 1..(i - 1) : toks[j] # sep
       IN  <<SubSeq(toks, 1, k - 1)>> \o SplitOn(SubSeq(toks, k + 1, Len(toks)), sep)

\* String.prototype.indexOf('='), 1-based, 0 for "not found" (-1 in the code)
IndexOfEq(toks) ==
  IF \A i \in 1..Len(toks) : toks[i] # "=" THEN 0
  ELSE CHOOSE i \in 1..Len(toks) : toks[i] = "=" /\ \A j \in 1..(i - 1) : toks[j] # "="

\* decodeURIComponent: a "%" must be followed by two hexadecimal digits,
\* which it replaces by the character they encode; otherwise URIError.
RECURSIVE DecodeOk(_)
DecodeOk(toks) ==
  IF toks = <<>> THEN TRUE
  ELSE IF Head(toks) = "%"
       THEN /\ Len(toks) >= 2
            /\ toks[2] \in DOMAIN HexVal
            /\ DecodeOk(SubSeq(toks, 3, Len(toks)))
  ELSE DecodeOk(Tail(toks))

RECURSIVE decodeURIComponent(_)
decodeURIComponent(toks) ==
  IF toks = <<>> THEN <<>>
  ELSE IF Head(toks) = "%"
       THEN <<HexVal[toks[2]]>> \o decodeURIComponent(SubSeq(toks, 3, Len(toks)))
  ELSE <<Head(toks)>> \o decodeURIComponent(Tail(toks))

\* parseInt(s, 10) and parseFloat(s): the value of the leading decimal
\* token, whatever follows it; NaN when the string does not start with one.
parseInt(col) ==
  IF col # <<>> /\ col[1] \in DOMAIN NumVal
  THEN [nan |-> FALSE, val |-> NumVal[col[1]]]
  ELSE [nan |-> TRUE, val |-> 0]

\* the optional numeric columns (score, phase): null for ".", else the parse
parseOptional(col) ==
  IF col = Dot THEN "null"
  ELSE IF parseInt(col).nan THEN "NaN" ELSE col[1]

(***************************************************************************)
(* parseAttributes                                                         *)
(***************************************************************************)
NoAttributes == [k \in {} |-> <<>>]

\* one iteration of the loop over the pairs: acc is [thrown, attrs]
AttrStep(acc, pair) ==
  IF acc.thrown THEN acc
  ELSE IF pair = <<>> THEN acc
  ELSE LET equalIndex == IndexOfEq(pair) IN
       IF equalIndex = 0 THEN acc
       ELSE LET key == SubSeq(pair, 1, equalIndex - 1)
                value == SubSeq(pair, equalIndex + 1, Len(pair))
            IN  IF ~DecodeOk(value) THEN [thrown |-> TRUE, attrs |-> acc.attrs]
                ELSE [thrown |-> FALSE,
                      attrs |-> [k \in (DOMAIN acc.attrs) \cup {key} |->
                                   IF k = key THEN decodeURIComponent(value)
                                   ELSE acc.attrs[k]]]

RECURSIVE AttrFold(_, _)
AttrFold(acc, pairs) ==
  IF pairs = <<>> THEN acc
  ELSE AttrFold(AttrStep(acc, Head(pairs)), Tail(pairs))

\* [thrown, attrs]: thrown is decodeURIComponent's URIError
parseAttributes(attributeString) ==
  IF attributeString = <<>> \/ attributeString = Dot
  THEN [thrown |-> FALSE, attrs |-> NoAttributes]
  ELSE AttrFold([thrown |-> FALSE, attrs |-> NoAttributes],
                SplitOn(attributeString, ";"))

\* feature.attributes.ID and feature.attributes.Parent: <<>> stands for a
\* missing or empty (falsy) value
Attr(attrs, name) == IF <<name>> \in DOMAIN attrs THEN attrs[<<name>>] ELSE <<>>

(***************************************************************************)
(* parseGFF3Line                                                           *)
(***************************************************************************)
Strands == {"+", "-", ".", "?"}

\* columns.length !== 9
WrongColumnCount(columns) == Len(columns) # 9

\* isNaN(startPos) || isNaN(endPos)
NotIntegers(startPos, endPos) == startPos.nan \/ endPos.nan

\* the order of the coordinates left unchecked
OutOfOrderUnchecked(startPos, endPos) == FALSE

\* startPos > endPos
OutOfOrder(startPos, endPos) == startPos.val > endPos.val

\* strand !== '+' && strand !== '-' && strand !== '.' && strand !== '?'
InvalidStrand(strand) == ~(Len(strand) = 1 /\ strand[1] \in Strands)

\* [kind |-> "null"], [kind |-> "error", message |-> ...] (a throw) or
\* [kind |-> "feature", feature |-> ...]
parseGFF3Line(line, lineNumber) ==
  LET trimmed == Trim(line) IN
  IF trimmed = <<>> \/ (trimmed[1] # <<>> /\ trimmed[1][1] = "#")
  THEN [kind |-> "null"]
  ELSE
  LET columns == trimmed IN
  IF WrongColumnCount(columns) THEN [kind |-> "error", message |-> "columns"]
  ELSE
  LET startPos == parseInt(columns[4])
      endPos == parseInt(columns[5])
      strand == columns[7]
  IN
  IF NotIntegers(startPos, endPos)
  THEN [kind |-> "error", message |-> "coordinates"]
  ELSE IF OutOfOrder(startPos, endPos) THEN [kind |-> "error", message |-> "order"]
  ELSE IF InvalidStrand(strand) THEN [kind |-> "error", message |-> "strand"]
  ELSE
  LET attributes == parseAttributes(columns[9]) IN
  IF attributes.thrown THEN [kind |-> "error", message |-> "URIError"]
  ELSE [kind |-> "feature",
        feature |-> [seqid |-> columns[1],
                     source |-> columns[2],
                     type |-> columns[3],
                     start |-> startPos.val,
                     end |-> endPos.val,
                     score |-> parseOptional(columns[6]),
                     strand |-> strand[1],
                     phase |-> parseOptional(columns[8]),
                     attributes |-> attributes.attrs,
                     lineNumber |-> lineNumber]]

(***************************************************************************)
(* buildHierarchy                                                          *)
(***************************************************************************)
\* a first pass that keeps the first feature of an ID
RECURSIVE IndexByIdKeepsFirst(_, _, _)
IndexByIdKeepsFirst(features, i, featureById) ==
  IF i > Len(features) THEN featureById
  ELSE LET id == Attr(features[i].attributes, "ID") IN
       IndexByIdKeepsFirst(features, i + 1,
                 IF id # <<>> /\ id \notin DOMAIN featureById
                 THEN [k \in (DOMAIN featureById) \cup {id} |->
                         IF k = id THEN i ELSE featureById[k]]
                 ELSE featureById)

\* first pass: index the features by their ID, a later one overwriting
RECURSIVE IndexById(_, _, _)
IndexById(features, i, featureById) ==
  IF i > Len(features) THEN featureById
  ELSE LET id == Attr(features[i].attributes, "ID") IN
       IndexById(features, i + 1,
                 IF id # <<>>
                 THEN [k \in (DOMAIN featureById) \cup {id} |->
                         IF k = id THEN i ELSE featureById[k]]
                 ELSE featureById)

\* a second pass that drops the feature whose Parent is not found
LinkStepDropsOrphan(features, featureById, h, i) ==
  LET parentId == Attr(features[i].attributes, "Parent") IN
  IF parentId # <<>>
  THEN IF parentId \in DOMAIN featureById
       THEN LET p == featureById[parentId] IN
            [h EXCEPT !.parent[i] = p,
                      !.children[p] = Append(@, i)]
       ELSE [h EXCEPT !.warned = Append(@, i)]
  ELSE [h EXCEPT !.rootFeatures = Append(@, i)]

\* a second pass that puts a child in front of its parent's children
LinkStepPrepends(features, featureById, h, i) ==
  LET parentId == Attr(features[i].attributes, "Parent") IN
  IF parentId # <<>>
  THEN IF parentId \in DOMAIN featureById
       THEN LET p == featureById[parentId] IN
            [h EXCEPT !.parent[i] = p,
                      !.children[p] = <<i>> \o @]
       ELSE [h EXCEPT !.rootFeatures = Append(@, i),
                      !.warned = Append(@, i)]
  ELSE [h EXCEPT !.rootFeatures = Append(@, i)]

\* second pass, one feature: link it to its parent, or make it a root
LinkStep(features, featureById, h, i) ==
  LET parentId == Attr(features[i].attributes, "Parent") IN
  IF parentId # <<>>
  THEN IF parentId \in DOMAIN featureById
       THEN LET p == featureById[parentId] IN
            [h EXCEPT !.parent[i] = p,
                      !.children[p] = Append(@, i)]
       ELSE [h EXCEPT !.rootFeatures = Append(@, i),
                      !.warned = Append(@, i)]
  ELSE [h EXCEPT !.rootFeatures = Append(@, i)]

RECURSIVE LinkAll(_, _, _, _)
LinkAll(features, featureById, h, i) ==
  IF i > Len(features) THEN h
  ELSE LinkAll(features, featureById, LinkStep(features, featureById, h, i), i + 1)

\* parent[i] = 0 is null; warned lists the features console.warn was
\* called for, which is all the code does with an unresolved Parent
buildHierarchy(features) ==
  LET n == Len(features)
      featureById == IndexById(features, 1, [k \in {} |-> 0])
      h == LinkAll(features, featureById,
                   [parent |-> [i \in 1..n |-> 0],
                    children |-> [i \in 1..n |-> <<>>],
                    rootFeatures |-> <<>>,
                    warned |-> <<>>], 1)
  IN  [featureById |-> featureById,
       rootFeatures |-> h.rootFeatures,
       parent |-> h.parent,
       children |-> h.children,
       warned |-> h.warned]

(***************************************************************************)
(* getDescendants.  The result is [thrown, descendants]: traverse keeps no *)
(* record of the nodes it has been to, so on a node that is reached again  *)
(* from itself the calls nest until the engine has no stack left and       *)
(* throws a RangeError.  A call nested deeper than there are features is   *)
(* on such a node.                                                         *)
(***************************************************************************)
RECURSIVE traverse(_, _, _)
RECURSIVE TraverseChildren(_, _, _)
traverse(data, node, depth) ==
  IF depth > Len(data.features)
  THEN [thrown |-> TRUE, descendants |-> <<>>]
  ELSE TraverseChildren(data, data.children[node], depth)

\* for (const child of node.children) { descendants.push(child);
\* traverse(child); }
TraverseChildren(data, list, depth) ==
  IF list = <<>> THEN [thrown |-> FALSE, descendants |-> <<>>]
  ELSE LET below == traverse(data, Head(list), depth + 1) IN
       IF below.thrown THEN below
       ELSE LET rest == TraverseChildren(data, Tail(list), depth) IN
            IF rest.thrown THEN rest
            ELSE [thrown |-> FALSE,
                  descendants |-> <<Head(list)>> \o below.descendants
                                    \o rest.descendants]

getDescendants(data, feature) == traverse(data, feature, 0)

(***************************************************************************)
(* parseGFF3                                                               *)
(***************************************************************************)
EmptyLine == <<EmptyCol>>

\* the empty string is the file of one empty line
IsEmptyString(fileContent) == fileContent = <<EmptyLine>>

\* a loop that stops at the first line that throws
RECURSIVE ParseLinesStopsAtError(_, _, _)
ParseLinesStopsAtError(lines, i, acc) ==
  IF i > Len(lines) THEN acc
  ELSE LET r == parseGFF3Line(lines[i], i) IN
       CASE r.kind = "feature" ->
              ParseLinesStopsAtError(lines, i + 1,
                [acc EXCEPT !.features = Append(@, r.feature)])
         [] r.kind = "error" ->
              [acc EXCEPT !.errors =
                 Append(@, [lineNumber |-> i, message |-> r.message,
                            line |-> lines[i]])]
         [] OTHER -> ParseLinesStopsAtError(lines, i + 1, acc)

\* the loop over the lines: acc is [features, errors]
RECURSIVE ParseLines(_, _, _)
ParseLines(lines, i, acc) ==
  IF i > Len(lines) THEN acc
  ELSE LET r == parseGFF3Line(lines[i], i) IN
       ParseLines(lines, i + 1,
         CASE r.kind = "feature" ->
                [acc EXCEPT !.features = Append(@, r.feature)]
           [] r.kind = "error" ->
                [acc EXCEPT !.errors =
                   Append(@, [lineNumber |-> i, message |-> r.message,
                              line |-> lines[i]])]
           [] OTHER -> acc)

\* a threshold that takes exactly 10% for too many
TooManyErrorsInclusive(nErrors, nLines) == nErrors > 0 /\ nErrors * 10 >= nLines

\* errors.length > 0 && errors.length / lines.length > 0.1.  The quotient
\* is the double nearest to e/n and 0.1 the double nearest to 1/10, so for
\* the line counts of a file the comparison is that of 10 * e with n.
TooManyErrors(nErrors, nLines) == nErrors > 0 /\ nErrors * 10 > nLines

Min(a, b) == IF a <= b THEN a ELSE b
Max(a, b) == IF a >= b THEN a ELSE b

\* an extent that starts where the first feature does
MinStartOfFirst(features, i) == features[i].start

RECURSIVE MinStart(_, _)
MinStart(features, i) ==
  IF i = Len(features) THEN features[i].start
  ELSE Min(features[i].start, MinStart(features, i + 1))

RECURSIVE MaxEnd(_, _)
MaxEnd(features, i) ==
  IF i = Len(features) THEN features[i].end
  ELSE Max(features[i].end, MaxEnd(features, i + 1))

\* Array.from(new Set(...)): the distinct values in order of first occurrence
RECURSIVE Distinct(_, _)
Distinct(vals, seen) ==
  IF vals = <<>> THEN seen
  ELSE Distinct(Tail(vals),
                IF \E j \in 1..Len(seen) : seen[j] = Head(vals)
                THEN seen ELSE Append(seen, Head(vals)))

\* a message that lists every error
MalformedMessageAll(errors) ==
  [kind |-> "malformed",
   count |-> Len(errors),
   listed |-> [i \in 1..Len(errors) |->
                 [lineNumber |-> errors[i].lineNumber,
                  message |-> errors[i].message]],
   more |-> 0]

\* the message of the aggregate error: the count, the first five line
\* numbers and messages, and the count of the remainder
MalformedMessage(errors) ==
  [kind |-> "malformed",
   count |-> Len(errors),
   listed |-> [i \in 1..Min(5, Len(errors)) |->
                 [lineNumber |-> errors[i].lineNumber,
                  message |-> errors[i].message]],
   more |-> IF Len(errors) > 5 THEN Len(errors) - 5 ELSE 0]

parseGFF3(fileContent) ==
  IF IsEmptyString(fileContent)
  THEN [thrown |-> TRUE, message |-> [kind |-> "invalid"]]
  ELSE
  LET lines == fileContent
      parsed == ParseLines(lines, 1, [features |-> <<>>, errors |-> <<>>])
      features == parsed.features
      errors == parsed.errors
  IN
  IF TooManyErrors(Len(errors), Len(lines))
  THEN [thrown |-> TRUE, message |-> MalformedMessage(errors)]
  ELSE
  LET hierarchy == buildHierarchy(features) IN
  [thrown |-> FALSE,
   features |-> features,
   rootFeatures |-> hierarchy.rootFeatures,
   featureById |-> hierarchy.featureById,
   parent |-> hierarchy.parent,
   children |-> hierarchy.children,
   warned |-> hierarchy.warned,
   extent |-> [start |-> IF features = <<>> THEN 0 ELSE MinStart(features, 1),
               end |-> IF features = <<>> THEN 0 ELSE MaxEnd(features, 1)],
   sequences |-> Distinct([i \in 1..Len(features) |-> features[i].seqid], <<>>),
   featureTypes |-> Distinct([i \in 1..Len(features) |-> features[i].type], <<>>),
   stats |-> [totalFeatures |-> Len(features),
              rootFeatures |-> Len(hierarchy.rootFeatures),
              errors |-> Len(errors)],
   errors |-> errors]

(***************************************************************************)
(* organizeIntoTracks, hasOverlap.  F is the features list, a track a      *)
(* sequence of positions in it.                                            *)
(***************************************************************************)
\* an overlap test that lets two intervals share an end point
hasOverlapOpen(F, track, feature) ==
  \E j \in 1..Len(track) :
     ~(F[track[j]].end <= F[feature].start \/ F[track[j]].start >= F[feature].end)

hasOverlap(F, track, feature) ==
  \E j \in 1..Len(track) :
     ~(F[track[j]].end < F[feature].start \/ F[track[j]].start > F[feature].end)

\* an iteration that opens a new track for every feature
PlaceFromNewTrack(F, tracks, feature, k) == Append(tracks, <<feature>>)

\* one iteration of features.forEach: the first track (from position k on)
\* that has no overlap with the feature takes it, else a new track does
RECURSIVE PlaceFrom(_, _, _, _)
PlaceFrom(F, tracks, feature, k) ==
  IF k > Len(tracks) THEN Append(tracks, <<feature>>)
  ELSE IF ~hasOverlap(F, tracks[k], feature)
       THEN [tracks EXCEPT ![k] = Append(@, feature)]
  ELSE PlaceFrom(F, tracks, feature, k + 1)

\* the tracks after the first n features of the list have been placed
RECURSIVE TracksAfter(_, _, _)
TracksAfter(F, features, n) ==
  IF n = 0 THEN <<>>
  ELSE PlaceFrom(F, TracksAfter(F, features, n - 1), features[n], 1)

organizeIntoTracks(F, features) == TracksAfter(F, features, Len(features))

(***************************************************************************)
(* The scale.  A linear scale maps its domain [d0, d1] onto the range      *)
(* [0, Width]; the zoom transform rescales xScale to a window of the       *)
(* extent.  Pixel positions are rationals, so every comparison of the      *)
(* code is made here on cross-multiplied integers.  A scale whose domain   *)
(* is one point maps every value to the middle of the range.               *)
(***************************************************************************)
xScaleOf(data) == [d0 |-> data.extent.start, d1 |-> data.extent.end]

\* the window edges the model zooms to
ViewEdges == {10, 20, 41, 51}

\* event.transform.rescaleX(xScale) for the transforms the zoom behaviour
\* lets through (scale >= 1, translate inside the extent): windows of the
\* extent, here the extent itself and those with edges among ViewEdges
RescaledScales(data) ==
  {xScaleOf(data)} \cup
  {sc \in [d0 : ViewEdges, d1 : ViewEdges] :
     /\ sc.d0 < sc.d1
     /\ data.extent.start <= sc.d0
     /\ sc.d1 <= data.extent.end}

(***************************************************************************)
(* The zoom behaviour.  A transform is [k, start]: the zoom scale k and    *)
(* the coordinate start that the translation brings to pixel 0.            *)
(***************************************************************************)
\* the minimum interval between two redraws, in ms
throttleInterval == 60

\* a limit of 2000 for the regions above 100000 only
maxZoomAbove(data) ==
  IF data.extent.end - data.extent.start > 100000 THEN 2000 ELSE 1000

\* regionSize >= 100000 ? 2000 : 1000
maxZoom(data) ==
  IF data.extent.end - data.extent.start >= 100000 THEN 2000 ELSE 1000

\* the scales a wheel or a pinch asks for; 0 is a request below 1
RequestedScales == {0, 1, 1000, 2000, 4000}

\* scaleExtent([1, maxZoom]): the behaviour brings the scale asked for
\* into the extent
ScaleExtent(k, data) == Max(1, Min(maxZoom(data), k))

\* the transforms of the zoom events: the scale within scaleExtent, the
\* window within translateExtent (here at its left or at its right end)
Transforms(data) ==
  LET Window(k) == (data.extent.end - data.extent.start) \div k IN
  UNION {{[k |-> ScaleExtent(r, data), start |-> data.extent.start],
          [k |-> ScaleExtent(r, data),
           start |-> data.extent.end - Window(ScaleExtent(r, data))]} :
         r \in RequestedScales}

\* event.transform.rescaleX(xScale)
rescaleX(transform, xScale) ==
  [d0 |-> transform.start,
   d1 |-> transform.start + (xScale.d1 - xScale.d0) \div transform.k]

\* scale.invert(0), scale.invert(width)
ViewStart(scale) == scale.d0
ViewEnd(scale) == scale.d1

\* scale(f.end) - scale(f.start) < 1
NarrowerThanOne(f, scale) ==
  IF scale.d1 = scale.d0 THEN TRUE
  ELSE (f.end - f.start) * Width < scale.d1 - scale.d0

\* scale(f.end) - scale(f.start) < 0.5
NarrowerThanHalf(f, scale) ==
  IF scale.d1 = scale.d0 THEN TRUE
  ELSE 2 * (f.end - f.start) * Width < scale.d1 - scale.d0

\* a culling test without the padding
OutsideUnpadded(f, scale) ==
  f.end < ViewStart(scale) \/ f.start > ViewEnd(scale)

\* feature.end < viewStart - viewportPadding || feature.start > viewEnd +
\* viewportPadding, with viewportPadding = (viewEnd - viewStart) * 0.1
OutsidePadded(f, scale) ==
  LET tenPad == ViewEnd(scale) - ViewStart(scale) IN
  \/ 10 * f.end < 10 * ViewStart(scale) - tenPad
  \/ 10 * f.start > 10 * ViewEnd(scale) + tenPad

\* x.end < viewStart || x.start > viewEnd
OutsideView(f, scale) == f.end < ViewStart(scale) \/ f.start > ViewEnd(scale)

(***************************************************************************)
(* The redraw.  A draw primitive is [kind, feat, to]: the path of a gene,  *)
(* the rect of an exon or a CDS (feat is the feature it is tagged with,    *)
(* to is 0), or the line of an intron from exon feat to exon to.           *)
(***************************************************************************)
\* the cap of updateFeatures, 5000 in the code, scaled down to the files
\* of the model
maxFeaturesToRender == 2

Prim(kind, feat, to) == [kind |-> kind, feat |-> feat, to |-> to]

\* children.filter(c => c.type === type)
RECURSIVE FilterType(_, _, _)
FilterType(F, list, type) ==
  IF list = <<>> THEN <<>>
  ELSE IF F[Head(list)].type = Col(type)
       THEN <<Head(list)>> \o FilterType(F, Tail(list), type)
  ELSE FilterType(F, Tail(list), type)

\* a sort that leaves the exons in the order of the file
SortKeepsOrder(F, list) == list

\* exons.sort((a, b) => a.start - b.start), a stable sort
RECURSIVE InsertByStart(_, _, _)
InsertByStart(F, sorted, x) ==
  IF sorted = <<>> THEN <<x>>
  ELSE IF F[x].start < F[Head(sorted)].start THEN <<x>> \o sorted
  ELSE <<Head(sorted)>> \o InsertByStart(F, Tail(sorted), x)

RECURSIVE SortByStart(_, _)
SortByStart(F, list) ==
  IF list = <<>> THEN <<>>
  ELSE InsertByStart(F, SortByStart(F, SubSeq(list, 1, Len(list) - 1)),
                     list[Len(list)])

\* the intron lines of renderMRNA, from pair i of the sorted exons on
RECURSIVE IntronLines(_, _, _, _)
IntronLines(F, exons, scale, i) ==
  IF i >= Len(exons) THEN <<>>
  ELSE (IF F[exons[i + 1]].start < ViewStart(scale)
           \/ F[exons[i]].end > ViewEnd(scale)
        THEN <<>>
        ELSE <<Prim("intron", exons[i], exons[i + 1])>>)
       \o IntronLines(F, exons, scale, i + 1)

\* the rects of renderMRNA for the exons, or for the CDSs
RECURSIVE Blocks(_, _, _, _)
Blocks(F, list, scale, kind) ==
  IF list = <<>> THEN <<>>
  ELSE (IF OutsideView(F[Head(list)], scale) THEN <<>>
        ELSE IF NarrowerThanHalf(F[Head(list)], scale) THEN <<>>
        ELSE <<Prim(kind, Head(list), 0)>>)
       \o Blocks(F, Tail(list), scale, kind)

renderMRNA(data, feature, scale) ==
  LET F == data.features
      exons == SortByStart(F, FilterType(F, data.children[feature], "exon"))
      cdss == FilterType(F, data.children[feature], "CDS")
  IN  IntronLines(F, exons, scale, 1)
        \o Blocks(F, exons, scale, "exon")
        \o Blocks(F, cdss, scale, "cds")

\* renderFeature, with renderGene, renderExon and renderCDS: the
\* primitives appended for a feature, in the order they are appended
RECURSIVE renderFeature(_, _, _)
RECURSIVE RenderChildren(_, _, _)
renderFeature(data, feature, scale) ==
  LET f == data.features[feature] IN
  IF NarrowerThanOne(f, scale) THEN <<>>
  ELSE IF f.type = Col("gene")
       THEN <<Prim("gene", feature, 0)>>
              \o RenderChildren(data, data.children[feature], scale)
  ELSE IF f.type = Col("mRNA") THEN renderMRNA(data, feature, scale)
  ELSE IF f.type = Col("exon") THEN <<Prim("exon", feature, 0)>>
  ELSE IF f.type = Col("CDS") THEN <<Prim("cds", feature, 0)>>
  ELSE <<>>

\* feature.children.forEach(child => renderFeature(...)) of renderGene
RenderChildren(data, list, scale) ==
  IF list = <<>> THEN <<>>
  ELSE renderFeature(data, Head(list), scale)
         \o RenderChildren(data, Tail(list), scale)

\* a forEach that calls renderFeature twice for every child
RECURSIVE VisitChildrenTwice(_, _, _)
RECURSIVE VisitOnce(_, _, _)
VisitChildrenTwice(data, list, scale) ==
  IF list = <<>> THEN <<>>
  ELSE VisitOnce(data, Head(list), scale) \o VisitOnce(data, Head(list), scale)
         \o VisitChildrenTwice(data, Tail(list), scale)

VisitOnce(data, feature, scale) ==
  <<feature>> \o
  (IF NarrowerThanOne(data.features[feature], scale) THEN <<>>
   ELSE IF data.features[feature].type = Col("gene")
        THEN VisitChildrenTwice(data, data.children[feature], scale)
   ELSE <<>>)

\* the features the descent of renderFeature comes to, in the order it
\* comes to them: the feature renderFeature is called with, for a gene
\* the children renderGene calls renderFeature with, for an mRNA the
\* exons and the CDSs renderMRNA takes from its children
RECURSIVE visitFeature(_, _, _)
RECURSIVE VisitChildren(_, _, _)
visitFeature(data, feature, scale) ==
  LET f == data.features[feature] IN
  <<feature>> \o
  (IF NarrowerThanOne(f, scale) THEN <<>>
   ELSE IF f.type = Col("gene")
        THEN VisitChildren(data, data.children[feature], scale)
   ELSE IF f.type = Col("mRNA")
        THEN FilterType(data.features, data.children[feature], "exon")
               \o FilterType(data.features, data.children[feature], "CDS")
   ELSE <<>>)

\* feature.children.forEach(child => renderFeature(...)), for the visits
VisitChildren(data, list, scale) ==
  IF list = <<>> THEN <<>>
  ELSE visitFeature(data, Head(list), scale)
         \o VisitChildren(data, Tail(list), scale)

\* track.forEach of updateFeatures: acc is [renderedCount, primitives,
\* visited]
RECURSIVE RenderTrack(_, _, _, _)
RenderTrack(data, track, scale, acc) ==
  IF track = <<>> THEN acc
  ELSE RenderTrack(data, Tail(track), scale,
         IF acc.renderedCount >= maxFeaturesToRender THEN acc
         ELSE IF OutsidePadded(data.features[Head(track)], scale) THEN acc
         ELSE [renderedCount |-> acc.renderedCount + 1,
               primitives |-> acc.primitives
                                \o renderFeature(data, Head(track), scale),
               visited |-> acc.visited
                             \o visitFeature(data, Head(track), scale)])

\* tracks.forEach of updateFeatures
RECURSIVE RenderTracks(_, _, _, _)
RenderTracks(data, trks, scale, acc) ==
  IF trks = <<>> THEN acc
  ELSE RenderTracks(data, Tail(trks), scale,
         IF acc.renderedCount >= maxFeaturesToRender THEN acc
         ELSE RenderTrack(data, Head(trks), scale, acc))

updateFeatures(data, trks, scale) ==
  RenderTracks(data, trks, scale,
               [renderedCount |-> 0, primitives |-> <<>>, visited |-> <<>>])

\* a renderMRNA that sorts feature.children itself
ChildrenSortedInPlace(F, children) == SortByStart(F, children)

\* feature.children after renderMRNA: filter returns a new array, and it
\* is that array sort orders
ChildrenAfterRenderMRNA(F, children) == children

\* the data after updateFeatures(scale) has visited the features of the
\* list: organizeIntoTracks and updateFeatures push features into arrays
\* of their own, renderFeature and renderGene assign to no feature, and
\* renderMRNA runs for the mRNAs renderFeature does not return early for
DataAfterRedraw(data, visited, scale) ==
  [data EXCEPT !.children =
     [i \in DOMAIN data.children |->
        IF (\E j \in 1..Len(visited) : visited[j] = i)
           /\ data.features[i].type = Col("mRNA")
           /\ ~NarrowerThanOne(data.features[i], scale)
        THEN ChildrenAfterRenderMRNA(data.features, data.children[i])
        ELSE data.children[i]]]

(***************************************************************************)
(* The files of the model.                                                 *)
(***************************************************************************)
\* a record line of nine columns
Rec(type, start, end, attrs) ==
  <<Col("chr1"), Col("RefSeq"), Col(type), Col(start), Col(end),
    Dot, Col("+"), Dot, attrs>>

Id(x) == <<"ID", "=", x>>
Parent(x) == <<"Parent", "=", x>>
IdParent(x, y) == <<"ID", "=", x, ";", "Parent", "=", y>>

\* record lines that parse: a gene; its mRNA; two exons of the mRNA, the
\* later one first; a CDS hung on the ID a and lying outside the gene; a
\* second gene that shares coordinate 40 with the first and the ID b with
\* the mRNA; an mRNA that shares the ID a with the gene and closes a cycle
\* with the first mRNA.  A line whose Parent is not in the file is an orphan.
FeatureLines ==
  { Rec("gene", "10", "40", Id("a")),
    Rec("mRNA", "10", "40", IdParent("b", "a")),
    Rec("exon", "30", "40", Parent("b")),
    Rec("exon", "10", "20", Parent("b")),
    Rec("CDS", "50", "60", Parent("a")),
    Rec("gene", "40", "60", Id("b")),
    Rec("mRNA", "10", "40", IdParent("a", "b")) }

\* genes under genes, with Parent references that name the feature itself
\* or close a cycle
WalkLines ==
  { Rec("gene", "10", "40", Id("a")),
    Rec("gene", "10", "40", Id("b")),
    Rec("gene", "10", "40", IdParent("a", "a")),
    Rec("gene", "10", "40", IdParent("b", "a")),
    Rec("gene", "10", "40", IdParent("a", "b")),
    Rec("mRNA", "10", "40", IdParent("b", "a")),
    Rec("exon", "10", "40", Parent("b")) }

\* an mRNA, as a root or under a gene, and exons that are a pixel wide on
\* the scale of the extent, and one that is not
ExonLines ==
  { Rec("mRNA", "10", "50", Id("b")),
    Rec("gene", "10", "50", Id("a")),
    Rec("mRNA", "10", "50", IdParent("b", "a")),
    Rec("exon", "30", "50", Parent("b")),
    Rec("exon", "10", "30", Parent("b")),
    Rec("exon", "10", "20", Parent("b")) }

\* the files of one to n lines over a set of lines
FilesOver(lineSet, n) == UNION {[1..k -> lineSet] : k \in 1..n}

FeatureFiles == FilesOver(FeatureLines, MaxFeatures)

\* files for the zoom: a gene over a region of 99000, and one over a
\* region of 100000, each with an exon at its start
WalkFiles == FilesOver(WalkLines, MaxFeatures)

ExonFiles == FilesOver(ExonLines, MaxFeatures)

ZoomFiles ==
  { <<Rec("gene", "10", "99010", Id("a")), Rec("exon", "10", "60", Parent("a"))>>,
    <<Rec("gene", "10", "100010", Id("a")), Rec("exon", "10", "60", Parent("a"))>> }

GoodLine == Rec("gene", "10", "20", Id("a"))

\* lines of the parse family: a good line; a sloppy line that parses (a
\* coordinate with a trailing word, a score and a phase that are no
\* numbers, an attribute segment without "=", a percent-encoded value, a
\* Parent that resolves when the good line is in the file); eight columns;
\* ten columns; a good line behind a leading tab; a good line with a
\* trailing tab; nine columns the last of which is empty; start > end; a
\* start that is no integer; a strand that is none of the four; a "%" that
\* starts no escape; an mRNA on another sequence, child of the good line
ParseFamilyLines ==
  { GoodLine,
    <<Col("chr1"), Col("RefSeq"), Col("gene"), Col("10"), <<"20", "bp">>,
      Col("high"), Col("-"), Col("x"),
      <<"junk", ";", "Name", "=", "%", "41", ";", "Parent", "=", "a">>>>,
    SubSeq(GoodLine, 1, 8),
    GoodLine \o <<Col("extra")>>,
    <<EmptyCol>> \o GoodLine,
    GoodLine \o <<EmptyCol>>,
    SubSeq(GoodLine, 1, 8) \o <<EmptyCol>>,
    Rec("gene", "30", "20", Id("a")),
    Rec("gene", "x", "20", Id("a")),
    [GoodLine EXCEPT ![7] = Col("*")],
    Rec("gene", "10", "20", <<"Note", "=", "%">>),
    <<Col("chr2"), Col("RefSeq"), Col("mRNA"), Col("30"), Col("60"),
      Dot, Col("-"), Dot, Parent("a")>> }

CommentLine == << <<"#", "#", "gff-version", "3">> >>
BlankLine == <<EmptyCol, EmptyCol>>

\* n lines that parseGFF3Line ignores: comments and lines of white space
Padding(n) == [i \in 1..n |-> IF i % 2 = 1 THEN CommentLine ELSE BlankLine]

\* n lines that fail, for three reasons in turn
ErrorRun(n) ==
  [i \in 1..n |->
     CASE i % 3 = 1 -> Rec("gene", "30", "20", Id("a"))
       [] i % 3 = 2 -> Rec("gene", "x", "20", Id("a"))
       [] OTHER -> [GoodLine EXCEPT ![7] = Col("*")]]

\* runs of failing lines, behind a comment line or not, before a good
\* line or not
ErrorFiles ==
  {head \o ErrorRun(n) \o tail :
     n \in 1..MaxErrors, head \in {<<>>, <<CommentLine>>}, tail \in {<<>>, <<GoodLine>>}}

ParseFiles ==
  {Padding(n) \o body : n \in 0..MaxPad, body \in FilesOver(ParseFamilyLines, MaxBody)}
    \cup {<<EmptyLine>>} \cup ErrorFiles

\* files under their names: two that parse to different data, one
\* parseGFF3 throws for, and one without a feature
ShellFiles ==
  { [name |-> "a.gff3", content |-> <<Rec("gene", "10", "40", Id("a"))>>],
    [name |-> "b.gff3", content |-> <<Rec("gene", "40", "60", Id("b"))>>],
    [name |-> "c.gff3", content |-> <<EmptyLine>>],
    [name |-> "d.gff3", content |-> <<CommentLine>>] }

(***************************************************************************)
(* The state: the shell (App) and the browser's rendering effect.          *)
(***************************************************************************)
VARIABLES
  content,        \* the content handleFileLoad was called with, NoFile before
  timers,         \* the callbacks given to setTimeout that have not run, in
                  \* order, each one the content its handleFileLoad was called with
  fileName,       \* App state
  loading,        \* App state
  error,          \* App state: NoError (null) or the message of an Error
  genomicData,    \* App state: Null or the result of parseGFF3
  tracks,         \* the effect's tracks
  scale,          \* the scale of the last updateFeatures, NoScale before it
  renderedCount,  \* renderedCount at the end of the last updateFeatures
  primitives,     \* what the last updateFeatures appended to featureGroup
  now,            \* performance.now()
  lastUpdateTime, \* the effect's lastUpdateTime
  zoomTimeout,    \* the timer behind zoomTimeout: NoTimer or [newXScale, due]
  frameQueue,     \* the callbacks given to requestAnimationFrame, in order
  lastTransform,  \* the effect's lastTransform, Null before the first event
  tooltip,        \* GenomeBrowser state: [visible, content, pinned]
  descendants,    \* what the last call of getDescendants came to, Null before it
  lastZoomRedraw, \* history: updateStart of the last updateFeatures a zoom
                  \* event asked for, -1 before it
  undrawnSince    \* history: the time of the earliest zoom event that no
                  \* updateFeatures, for it or for a later event, has
                  \* followed, -1 without one

vars == <<content, timers, fileName, loading, error, genomicData, tracks, scale,
          renderedCount, primitives, now, lastUpdateTime, zoomTimeout,
          frameQueue, lastTransform, tooltip, descendants, lastZoomRedraw,
          undrawnSince>>

shellVars == <<content, timers, fileName, loading, error, genomicData>>
drawVars == <<tracks, scale, renderedCount, primitives>>
historyVars == <<lastZoomRedraw, undrawnSince>>
zoomVars == <<now, lastUpdateTime, zoomTimeout, frameQueue, lastTransform, historyVars>>
browserVars == <<drawVars, zoomVars, tooltip, descendants>>

NoFile == <<>>
Null == [null |-> TRUE]
NoError == [kind |-> "none"]
NoScale == [none |-> TRUE]
EmptyError == [kind |-> "empty"]
NoTimer == [none |-> TRUE]
\* { visible: false, x: 0, y: 0, content: null }: content 0 is null, and a
\* pinned that is missing is falsy
Hidden == [visible |-> FALSE, content |-> 0, pinned |-> FALSE]

Init ==
  /\ content = NoFile
  /\ timers = <<>>
  /\ fileName = ""
  /\ loading = FALSE
  /\ error = NoError
  /\ genomicData = Null
  /\ tracks = <<>>
  /\ scale = NoScale
  /\ renderedCount = 0
  /\ primitives = <<>>
  /\ now = 0
  /\ lastUpdateTime = 0
  /\ zoomTimeout = NoTimer
  /\ frameQueue = <<>>
  /\ lastTransform = Null
  /\ tooltip = Hidden
  /\ descendants = Null
  /\ lastZoomRedraw = -1
  /\ undrawnSince = -1

\* the shell before its first load; the model follows one load
NothingLoaded == content = NoFile

\* handleFileLoad(content, name), up to the setTimeout
HandleFileLoad(fileContent, name) ==
  /\ loading' = TRUE
  /\ error' = NoError
  /\ fileName' = name
  /\ content' = fileContent
  /\ timers' = Append(timers, fileContent)
  /\ UNCHANGED <<genomicData, browserVars>>

\* a shell that takes every result for one with features
NoFeaturesFoundNever(parsedData) == FALSE

\* parsedData.stats.totalFeatures === 0
NoFeaturesFound(parsedData) == parsedData.stats.totalFeatures = 0

\* the callback handleFileLoad hands to setTimeout
ParseCallback ==
  /\ timers # <<>>
  /\ LET parsedData == parseGFF3(Head(timers)) IN
       IF parsedData.thrown
       THEN error' = parsedData.message /\ UNCHANGED genomicData
       ELSE IF NoFeaturesFound(parsedData)
            THEN error' = EmptyError /\ UNCHANGED genomicData
       ELSE genomicData' = parsedData /\ UNCHANGED error
  /\ loading' = FALSE
  /\ timers' = Tail(timers)
  /\ UNCHANGED <<content, fileName, browserVars>>

\* the main rendering effect of GenomeBrowser, run for the data it is given
RenderEffect ==
  /\ genomicData # Null
  /\ scale = NoScale
  /\ LET trks == organizeIntoTracks(genomicData.features, genomicData.rootFeatures)
         drawn == updateFeatures(genomicData, trks, xScaleOf(genomicData))
     IN  /\ tracks' = trks
         /\ scale' = xScaleOf(genomicData)
         /\ renderedCount' = drawn.renderedCount
         /\ primitives' = drawn.primitives
         /\ genomicData' = DataAfterRedraw(genomicData, drawn.visited,
                                           xScaleOf(genomicData))
  /\ zoomTimeout' = NoTimer
  /\ lastTransform' = Null
  /\ lastUpdateTime' = 0
  /\ UNCHANGED <<content, timers, fileName, loading, error, now, frameQueue,
                 tooltip, descendants, historyVars>>

\* a zoom event whose redraw runs: updateFeatures(newXScale)
ZoomRedraw(newXScale) ==
  /\ scale # NoScale
  /\ LET drawn == updateFeatures(genomicData, tracks, newXScale) IN
       /\ renderedCount' = drawn.renderedCount
       /\ primitives' = drawn.primitives
       /\ genomicData' = DataAfterRedraw(genomicData, drawn.visited, newXScale)
  /\ scale' = newXScale
  /\ UNCHANGED <<content, timers, fileName, loading, error, tracks, zoomVars,
                 tooltip, descendants>>

\* a handler that defers every event: a debounce
ThrottledAlways(t, last) == TRUE

\* now - lastUpdateTime < throttleInterval
Throttled(t, last) == t - last < throttleInterval

\* the zoom handler, for an event that carries the transform
ZoomEvent(transform) ==
  /\ scale # NoScale
  /\ LET newXScale == rescaleX(transform, xScaleOf(genomicData)) IN
       /\ lastTransform' = transform
       /\ IF Throttled(now, lastUpdateTime)
          THEN /\ zoomTimeout' = [newXScale |-> newXScale,
                                  due |-> now + throttleInterval]
               /\ UNCHANGED <<lastUpdateTime, frameQueue>>
          ELSE /\ lastUpdateTime' = now
               /\ frameQueue' = Append(frameQueue,
                                       [newXScale |-> newXScale, deferred |-> FALSE])
               /\ UNCHANGED zoomTimeout
  /\ undrawnSince' = IF undrawnSince = -1 THEN now ELSE undrawnSince
  /\ UNCHANGED <<shellVars, drawVars, now, tooltip, descendants, lastZoomRedraw>>

\* the callback the zoom handler hands to setTimeout
ZoomTimeoutFires ==
  /\ zoomTimeout # NoTimer
  /\ now >= zoomTimeout.due
  /\ frameQueue' = Append(frameQueue,
                          [newXScale |-> zoomTimeout.newXScale, deferred |-> TRUE])
  /\ zoomTimeout' = NoTimer
  /\ UNCHANGED <<shellVars, drawVars, now, lastUpdateTime, lastTransform, tooltip,
                 descendants, historyVars>>

\* the data after the callbacks of the queue have run
RECURSIVE DataAfterFrames(_, _, _)
DataAfterFrames(data, trks, queue) ==
  IF queue = <<>> THEN data
  ELSE DataAfterFrames(
         DataAfterRedraw(data,
                         updateFeatures(data, trks, Head(queue).newXScale).visited,
                         Head(queue).newXScale),
         trks, Tail(queue))

\* an animation frame: the callbacks of requestAnimationFrame run in the
\* order of their requests, each one an updateFeatures(newXScale) that
\* replaces what the one before it drew; a deferred one sets lastUpdateTime.
\* The callbacks are those of the events up to the last immediate one of
\* this moment; an event deferred at this moment came after them, and its
\* timer is the one that is due a whole interval from now.
AnimationFrame ==
  /\ frameQueue # <<>>
  /\ LET last == frameQueue[Len(frameQueue)]
         data == DataAfterFrames(genomicData, tracks, frameQueue)
         drawn == updateFeatures(data, tracks, last.newXScale)
     IN  /\ scale' = last.newXScale
         /\ renderedCount' = drawn.renderedCount
         /\ primitives' = drawn.primitives
         /\ genomicData' = data
  /\ lastUpdateTime' =
       IF \E i \in 1..Len(frameQueue) : frameQueue[i].deferred
       THEN now ELSE lastUpdateTime
  /\ frameQueue' = <<>>
  /\ lastZoomRedraw' = now
  /\ undrawnSince' =
       IF zoomTimeout # NoTimer /\ zoomTimeout.due = now + throttleInterval
       THEN now ELSE -1
  /\ UNCHANGED <<content, timers, fileName, loading, error, tracks, now,
                 zoomTimeout, lastTransform, tooltip, descendants>>

\* a third of the interval passes; a timer that is due and a frame that
\* was requested run before it does
Tick ==
  /\ now < MaxTicks * (throttleInterval \div 3)
  /\ IF zoomTimeout = NoTimer THEN TRUE ELSE now < zoomTimeout.due
  /\ frameQueue = <<>>
  /\ now' = now + throttleInterval \div 3
  /\ UNCHANGED <<shellVars, drawVars, lastUpdateTime, zoomTimeout, frameQueue,
                 lastTransform, tooltip, descendants, historyVars>>

\* handleReset
HandleReset ==
  /\ genomicData' = Null
  /\ fileName' = ""
  /\ error' = NoError
  /\ UNCHANGED <<content, timers, loading, browserVars>>

\* App renders FileUploader, whose drop zone and buttons call onFileLoad
UploaderShown == genomicData = Null /\ error = NoError

\* App renders a button that calls handleReset
ResetShown == genomicData # Null \/ error # NoError

\* a call getDescendants(feature) on a feature of the parsed data
GetDescendants(feature) ==
  /\ genomicData # Null
  /\ descendants' = [of |-> feature, result |-> getDescendants(genomicData, feature)]
  /\ UNCHANGED <<shellVars, drawVars, zoomVars, tooltip>>

\* the features whose drawn element carries the pointer handlers (a gene's
\* path, the rect of an exon or a CDS; the line of an intron has none)
Hoverable ==
  {primitives[i].feat : i \in {j \in 1..Len(primitives) : primitives[j].kind # "intron"}}

\* mouseenter on a feature's element: showTooltip
MouseEnter(feature) ==
  /\ tooltip' = [visible |-> TRUE, content |-> feature, pinned |-> FALSE]
  /\ UNCHANGED <<shellVars, drawVars, zoomVars, descendants>>

\* mouseleave on a feature's element: hideTooltip
MouseLeave ==
  /\ tooltip' = IF tooltip.pinned THEN tooltip ELSE Hidden
  /\ UNCHANGED <<shellVars, drawVars, zoomVars, descendants>>

\* click on a feature's element: pinTooltip (the click does not propagate
\* to the background)
ClickFeature(feature) ==
  /\ tooltip' = [visible |-> TRUE, content |-> feature, pinned |-> TRUE]
  /\ UNCHANGED <<shellVars, drawVars, zoomVars, descendants>>

\* click on the background rect
ClickBackground ==
  /\ scale # NoScale
  /\ tooltip' = IF tooltip.pinned THEN Hidden ELSE tooltip
  /\ UNCHANGED <<shellVars, drawVars, zoomVars, descendants>>

\* click on the tooltip's close button, which a pinned tooltip shows
ClickClose ==
  /\ tooltip.visible /\ tooltip.content # 0 /\ tooltip.pinned
  /\ tooltip' = Hidden
  /\ UNCHANGED <<shellVars, drawVars, zoomVars, descendants>>

Browse ==
  \/ ParseCallback
  \/ RenderEffect
  \/ (genomicData # Null /\ \E sc \in RescaledScales(genomicData) : ZoomRedraw(sc))

\* files of features, for the hierarchy, the layout and the redraw
Next ==
  \/ (NothingLoaded /\ \E f \in FeatureFiles : HandleFileLoad(f, "features.gff3"))
  \/ Browse

Spec == Init /\ [][Next]_vars

\* files with lines that do not parse, behind comment lines
NextParse ==
  \/ (NothingLoaded /\ \E f \in ParseFiles : HandleFileLoad(f, "lines.gff3"))
  \/ Browse

SpecParse == Init /\ [][NextParse]_vars

\* files whose Parent references nest genes, name the feature itself or
\* close a cycle
NextWalk ==
  \/ (NothingLoaded /\ \E f \in WalkFiles : HandleFileLoad(f, "nested.gff3"))
  \/ Browse

SpecWalk == Init /\ [][NextWalk]_vars

\* files of an mRNA and its exons
NextExons ==
  \/ (NothingLoaded /\ \E f \in ExonFiles : HandleFileLoad(f, "exons.gff3"))
  \/ Browse

SpecExons == Init /\ [][NextExons]_vars

\* the shell alone: loads that follow one another before the callbacks of
\* the earlier ones have run, and resets
NextShell ==
  \/ (UploaderShown /\ Len(timers) < MaxPending
        /\ \E f \in ShellFiles : HandleFileLoad(f.content, f.name))
  \/ ParseCallback
  \/ (ResetShown /\ HandleReset)

SpecShell == Init /\ [][NextShell]_vars

\* calls of getDescendants on the features of such files
NextDescend ==
  \/ (NothingLoaded /\ \E f \in WalkFiles : HandleFileLoad(f, "nested.gff3"))
  \/ ParseCallback
  \/ (genomicData # Null
        /\ \E f \in 1..Len(genomicData.features) : GetDescendants(f))

SpecDescend == Init /\ [][NextDescend]_vars

\* zoom events, timers and frames over a loaded region
NextZoom ==
  \/ (NothingLoaded /\ \E f \in ZoomFiles : HandleFileLoad(f, "region.gff3"))
  \/ ParseCallback
  \/ RenderEffect
  \/ (scale # NoScale /\ \E t \in Transforms(genomicData) : ZoomEvent(t))
  \/ ZoomTimeoutFires
  \/ AnimationFrame
  \/ Tick

SpecZoom == Init /\ [][NextZoom]_vars

\* pointer events on the features drawn
NextPointer ==
  \/ (NothingLoaded /\ \E f \in FeatureFiles : HandleFileLoad(f, "features.gff3"))
  \/ ParseCallback
  \/ RenderEffect
  \/ (\E f \in Hoverable : MouseEnter(f))
  \/ (Hoverable # {} /\ MouseLeave)
  \/ (\E f \in Hoverable : ClickFeature(f))
  \/ ClickBackground
  \/ ClickClose

SpecPointer == Init /\ [][NextPointer]_vars
(***************************************************************************)
(* The claims.  What a claim speaks of is defined here on its own, not     *)
(* through the operators of the model.                                     *)
(***************************************************************************)
\* the callback has run for the content
Parsed == content # NoFile /\ timers = <<>>

\* the lines parseGFF3Line throws for
ErrorLines(file) ==
  {i \in 1..Len(file) : parseGFF3Line(file[i], i).kind = "error"}

Occurrences(seq, x) == Cardinality({j \in 1..Len(seq) : seq[j] = x})

\* the entries of errors, and the features, that carry line number i
ErrorsAt(data, i) ==
  Cardinality({j \in 1..Len(data.errors) : data.errors[j].lineNumber = i})
FeaturesAt(data, i) ==
  Cardinality({j \in 1..Len(data.features) : data.features[j].lineNumber = i})

\* C1: parseGFF3 throws the malformed-file error exactly when the lines
\* recorded as errors are more than 10% of all the lines of the input;
\* at 10% or less it returns, and errors holds exactly the failed lines.
C1_FatalAboveTenPercent ==
  (content # NoFile /\ ~IsEmptyString(content)) =>
    LET e == Cardinality(ErrorLines(content))
        n == Len(content)
        r == parseGFF3(content)
    IN  /\ r.thrown <=> e * 10 > n
        /\ r.thrown => r.message.kind = "malformed" /\ r.message.count = e
        /\ ~r.thrown =>
             /\ Len(r.errors) = e
             /\ {r.errors[j].lineNumber : j \in 1..Len(r.errors)} = ErrorLines(content)
        /\ Parsed => ((error.kind = "malformed") <=> e * 10 > n)
        /\ (Parsed /\ genomicData # Null) => genomicData = r

\* C1's case: a stored result whose errors are exactly 10% of the lines
C1_Witness ==
  /\ Parsed
  /\ genomicData # Null
  /\ Len(genomicData.errors) > 0
  /\ Len(genomicData.errors) * 10 = Len(content)

\* C2 (as stated): every line that is not blank and no comment and whose
\* number of tab-separated columns is not 9 has exactly one entry in
\* errors, with its line number, and no feature comes from it.
C2_WrongColumnCountIsError ==
  (Parsed /\ genomicData # Null) =>
    \A i \in 1..Len(content) :
      (/\ Trim(content[i]) # <<>>
       /\ Trim(content[i])[1][1] # "#"
       /\ Len(content[i]) # 9)
      => (ErrorsAt(genomicData, i) = 1 /\ FeaturesAt(genomicData, i) = 0)

\* C3: every feature of the result has start <= end, and a line of nine
\* columns whose start is greater than its end is in errors and gives no
\* feature.
C3_StartNotAfterEnd ==
  (Parsed /\ genomicData # Null) =>
    /\ \A j \in 1..Len(genomicData.features) :
         genomicData.features[j].start <= genomicData.features[j].end
    /\ \A i \in 1..Len(content) :
         LET cols == Trim(content[i]) IN
         (/\ Len(cols) = 9
          /\ cols[1][1] # "#"
          /\ ~parseInt(cols[4]).nan
          /\ ~parseInt(cols[5]).nan
          /\ parseInt(cols[4]).val > parseInt(cols[5]).val)
         => (ErrorsAt(genomicData, i) = 1 /\ FeaturesAt(genomicData, i) = 0)

\* C3's case: a stored result with a start > end line among its errors
C3_Witness ==
  /\ Parsed
  /\ genomicData # Null
  /\ \E j \in 1..Len(genomicData.errors) :
       LET cols == Trim(content[genomicData.errors[j].lineNumber]) IN
       /\ Len(cols) = 9
       /\ cols[4] = <<"30">>
       /\ cols[5] = <<"20">>

\* the features whose Parent names an ID that is not in featureById
Orphans(data) ==
  {i \in 1..Len(data.features) :
     /\ Attr(data.features[i].attributes, "Parent") # <<>>
     /\ Attr(data.features[i].attributes, "Parent") \notin DOMAIN data.featureById}

\* the features whose Parent names an ID that is in featureById
Linked(data) ==
  {i \in 1..Len(data.features) :
     /\ Attr(data.features[i].attributes, "Parent") # <<>>
     /\ Attr(data.features[i].attributes, "Parent") \in DOMAIN data.featureById}

\* C4 (as stated): a feature whose Parent names an ID that is not in
\* featureById is in rootFeatures and has exactly one entry in errors.
C4_OrphanWarnedInErrors ==
  (Parsed /\ genomicData # Null) =>
    \A i \in Orphans(genomicData) :
      /\ Occurrences(genomicData.rootFeatures, i) >= 1
      /\ ErrorsAt(genomicData, genomicData.features[i].lineNumber) = 1

\* C4 (amended): a feature whose Parent names an ID that is not in
\* featureById is in rootFeatures, once, and the warning is written to the
\* console only: errors holds no entry for it, only the lines that failed.
C4_OrphanIsRootAndLogged ==
  (Parsed /\ genomicData # Null) =>
    /\ \A i \in Orphans(genomicData) :
         /\ Occurrences(genomicData.rootFeatures, i) = 1
         /\ Occurrences(genomicData.warned, i) = 1
         /\ ErrorsAt(genomicData, genomicData.features[i].lineNumber) = 0
    /\ {genomicData.errors[j].lineNumber : j \in 1..Len(genomicData.errors)}
         = ErrorLines(content)

\* C4's case: a stored result with an orphan and with a line that failed
C4_Witness ==
  /\ Parsed
  /\ genomicData # Null
  /\ Orphans(genomicData) # {}
  /\ Len(genomicData.errors) > 0

\* C5: a feature whose Parent resolves has the feature indexed under that
\* ID as its parent, is once in that parent's children and in no other
\* children list; every children list is in file order.
C5_LinkedToIndexedParent ==
  (Parsed /\ genomicData # Null) =>
    LET data == genomicData
        n == Len(data.features)
    IN  /\ \A i \in Linked(data) :
             LET p == data.featureById[Attr(data.features[i].attributes, "Parent")] IN
             /\ data.parent[i] = p
             /\ Occurrences(data.children[p], i) = 1
             /\ \A q \in (1..n) \ {p} : Occurrences(data.children[q], i) = 0
        /\ \A p \in 1..n :
             \A j, k \in 1..Len(data.children[p]) :
               j < k => data.features[data.children[p][j]].lineNumber
                          < data.features[data.children[p][k]].lineNumber

\* C5's case: a parent with two children
C5_Witness ==
  /\ Parsed
  /\ genomicData # Null
  /\ \E p \in 1..Len(genomicData.features) : Len(genomicData.children[p]) >= 2

\* the walk down the children links, from a list of features
RECURSIVE WalkDown(_, _)
WalkDown(data, list) ==
  IF list = <<>> THEN <<>>
  ELSE <<Head(list)>> \o WalkDown(data, data.children[Head(list)])
         \o WalkDown(data, Tail(list))

\* C6 (as stated): the walk down the children links from the root
\* features visits every feature of the result exactly once.
C6_WalkFromRootsVisitsAllOnce ==
  (Parsed /\ genomicData # Null) =>
    \A i \in 1..Len(genomicData.features) :
      Occurrences(WalkDown(genomicData, genomicData.rootFeatures), i) = 1

\* no two features of a track share a coordinate
OverlapFree(F, trks) ==
  \A k \in 1..Len(trks) :
    \A x, y \in 1..Len(trks[k]) :
      x # y => \/ F[trks[k][x]].end < F[trks[k][y]].start
               \/ F[trks[k][y]].end < F[trks[k][x]].start

\* C7: every track of organizeIntoTracks is free of overlap (closed
\* intervals: sharing one coordinate is an overlap), after every single
\* placement and at the end.
C7_TracksOverlapFree ==
  (Parsed /\ genomicData # Null) =>
    /\ \A n \in 0..Len(genomicData.rootFeatures) :
         OverlapFree(genomicData.features,
                     TracksAfter(genomicData.features, genomicData.rootFeatures, n))
    /\ scale # NoScale => OverlapFree(genomicData.features, tracks)

\* C7's case: two tracks, one of them with two features
C7_Witness ==
  /\ scale # NoScale
  /\ Len(tracks) >= 2
  /\ \E k \in 1..Len(tracks) : Len(tracks[k]) >= 2

\* the span of f meets the window [v0, v1] widened by 10% of its width
InPaddedWindow(f, v0, v1) ==
  /\ 10 * f.end >= 10 * v0 - (v1 - v0)
  /\ 10 * f.start <= 10 * v1 + (v1 - v0)

\* the span of f meets the window [v0, v1]
InWindow(f, v0, v1) == f.end >= v0 /\ f.start <= v1

\* f is at least num/den pixels wide on a scale of domain [v0, v1]
AtLeastPixels(f, v0, v1, num, den) ==
  v1 > v0 /\ den * (f.end - f.start) * Width >= num * (v1 - v0)

\* a path or a rect tagged with feature i was appended
Drawn(i) ==
  \E k \in 1..Len(primitives) :
    primitives[k].kind # "intron" /\ primitives[k].feat = i

\* C8 (as stated): no primitive is drawn for a feature, root or child,
\* whose span lies outside the visible window widened by the padding.
C8_NothingDrawnOutsidePadded ==
  scale # NoScale =>
    \A i \in 1..Len(genomicData.features) :
      Drawn(i) => InPaddedWindow(genomicData.features[i], scale.d0, scale.d1)

IsType(i, types) == \E t \in types : genomicData.features[i].type = <<t>>
IsRoot(i) == Occurrences(genomicData.rootFeatures, i) >= 1
ParentOf(i) == genomicData.parent[i]

\* renderMRNA ran for feature m: an mRNA of at least one pixel that is a
\* root in the padded window or a child of a gene that was drawn
MRNARendered(m) ==
  /\ IsType(m, {"mRNA"})
  /\ AtLeastPixels(genomicData.features[m], scale.d0, scale.d1, 1, 1)
  /\ \/ IsRoot(m) /\ InPaddedWindow(genomicData.features[m], scale.d0, scale.d1)
     \/ ParentOf(m) # 0 /\ IsType(ParentOf(m), {"gene"}) /\ Drawn(ParentOf(m))

C10_PrimitivesWithinCap ==
  scale # NoScale => Len(primitives) <= maxFeaturesToRender

\* the scale of the most recent transform the zoom handler has seen
LatestScale == rescaleX(lastTransform, xScaleOf(genomicData))

\* no timer of the zoom handler is pending and no frame is requested
ZoomQuiet == zoomTimeout = NoTimer /\ frameQueue = <<>>

\* C11 (as stated): once the zoom events have stopped and every pending
\* timer and animation-frame callback has run, the redraw on screen is the
\* one of the last transform of the burst.
C11_LastTransformOnScreen ==
  (lastTransform # Null /\ ZoomQuiet) => scale = LatestScale

\* C12 (as stated): a pending deferred redraw, whether its timer is still
\* running or its frame is requested, never holds a transform older than
\* the most recent transform the handler has seen.
C12_PendingHoldsLatest ==
  /\ zoomTimeout # NoTimer => zoomTimeout.newXScale = LatestScale
  /\ \A i \in 1..Len(frameQueue) :
       frameQueue[i].deferred => frameQueue[i].newXScale = LatestScale

\* C13 (as stated): a tooltip pinned by a click stays as it is through
\* every hover event; it changes only by the close button, a click on the
\* background or a click on a feature.
C13_PinnedSurvivesHover ==
  [][(tooltip.pinned /\ tooltip' # tooltip) =>
       (ClickClose \/ ClickBackground \/ \E f \in Hoverable : ClickFeature(f))]_vars

\* C14: extent.start is the least start and extent.end the greatest end
\* over all the features of the flat list, children, orphans and every
\* seqid included, so that extent.start <= f.start <= f.end <= extent.end
\* for every feature f; without features the extent is {0, 0}.
C14_ExtentCoversFlatList ==
  (content # NoFile /\ ~IsEmptyString(content)) =>
    LET r == parseGFF3(content) IN
    ~r.thrown =>
      /\ IF r.features = <<>>
         THEN r.extent = [start |-> 0, end |-> 0]
         ELSE /\ \A j \in 1..Len(r.features) :
                   /\ r.extent.start <= r.features[j].start
                   /\ r.features[j].start <= r.features[j].end
                   /\ r.features[j].end <= r.extent.end
              /\ \E j \in 1..Len(r.features) : r.features[j].start = r.extent.start
              /\ \E j \in 1..Len(r.features) : r.features[j].end = r.extent.end
      /\ (Parsed /\ genomicData # Null) => genomicData.extent = r.extent

\* C14's case: a stored result whose extent starts at a root of one seqid
\* and ends at an earlier feature of another seqid that is not a root
C14_Witness ==
  /\ Parsed
  /\ genomicData # Null
  /\ \E i, j \in 1..Len(genomicData.features) :
       /\ i > j
       /\ genomicData.features[i].seqid # genomicData.features[j].seqid
       /\ genomicData.extent.start = genomicData.features[i].start
       /\ genomicData.extent.end = genomicData.features[j].end
       /\ genomicData.features[i].end < genomicData.extent.end
       /\ genomicData.features[j].start > genomicData.extent.start
       /\ \E k \in 1..Len(genomicData.rootFeatures) : genomicData.rootFeatures[k] = i
       /\ \A k \in 1..Len(genomicData.rootFeatures) : genomicData.rootFeatures[k] # j

\* the k-th line, in line order, that parseGFF3Line throws for
NthErrorLine(file, k) ==
  CHOOSE i \in ErrorLines(file) :
    Cardinality({j \in ErrorLines(file) : j < i}) = k - 1

\* C15: a fatal parse returns no result, so no data is stored and nothing
\* is laid out or drawn; the error lists exactly the first min(5, n) line
\* errors in line order, and the remainder n - 5 when n > 5, where n is the
\* number of line errors.
C15_FatalListsFirstFive ==
  (content # NoFile /\ ~IsEmptyString(content)) =>
    LET r == parseGFF3(content)
        n == Cardinality(ErrorLines(content))
        m == IF n < 5 THEN n ELSE 5
    IN  r.thrown =>
          /\ DOMAIN r = {"thrown", "message"}
          /\ r.message.count = n
          /\ Len(r.message.listed) = m
          /\ \A k \in 1..m :
               LET i == NthErrorLine(content, k) IN
               r.message.listed[k] =
                 [lineNumber |-> i, message |-> parseGFF3Line(content[i], i).message]
          /\ r.message.more = IF n > 5 THEN n - 5 ELSE 0
          /\ genomicData = Null /\ tracks = <<>> /\ scale = NoScale /\ primitives = <<>>
          /\ Parsed => error = r.message

\* C15's case: a fatal parse of more than five line errors, the first of
\* them behind a comment line, has been reported
C15_Witness ==
  /\ Parsed
  /\ error.kind = "malformed"
  /\ error.count > 5
  /\ error.more = error.count - 5
  /\ error.listed[1].lineNumber = 2

\* a column that is one decimal number
IsInteger(col) == Len(col) = 1 /\ col[1] \in DOMAIN NumVal

\* a line that is white space only, and one whose first character that is
\* no white space is "#"
IsBlank(line) == \A c \in 1..Len(line) : line[c] = EmptyCol
IsComment(line) ==
  \E c \in 1..Len(line) :
     /\ line[c] # EmptyCol
     /\ line[c][1] = "#"
     /\ \A d \in 1..(c - 1) : line[d] = EmptyCol

\* C16 (as stated): a line fails for one of four causes only (column
\* count, coordinate that is no integer, start > end, strand): every line
\* that is not blank and no comment and has nine tab-separated columns,
\* integer start <= end and a strand among + - . ? gives a feature,
\* whatever its score, phase and attributes columns hold.
C16_OnlyFourCauses ==
  (content # NoFile /\ ~IsEmptyString(content)) =>
    \A i \in 1..Len(content) :
      LET line == content[i] IN
      (/\ ~IsBlank(line)
       /\ ~IsComment(line)
       /\ Len(line) = 9
       /\ IsInteger(line[4])
       /\ IsInteger(line[5])
       /\ NumVal[line[4][1]] <= NumVal[line[5][1]]
       /\ Len(line[7]) = 1
       /\ line[7][1] \in {"+", "-", ".", "?"})
      => parseGFF3Line(line, i).kind = "feature"

\* C17: a load has exactly one outcome.  If parseGFF3 throws, error is the
\* thrown message and no data is stored; if it returns without features,
\* error is the "no features found" message, which no throw of parseGFF3
\* carries, and no data is stored; only a result with a feature is stored
\* as genomicData, and then error stays null.
C17_OneOutcomePerLoad ==
  IF Parsed
  THEN LET r == parseGFF3(content) IN
       /\ (error # NoError) # (genomicData # Null)
       /\ ~loading
       /\ r.thrown => (error = r.message /\ genomicData = Null)
       /\ (~r.thrown /\ Len(r.features) = 0) =>
            /\ error = EmptyError
            /\ genomicData = Null
       /\ (~r.thrown /\ Len(r.features) > 0) =>
            /\ genomicData = r
            /\ error = NoError
       /\ error = EmptyError => (~r.thrown /\ Len(r.features) = 0)
  ELSE error = NoError /\ genomicData = Null

\* C17's case: a file of comments and one failing line, under the
\* threshold, was parsed without a throw and without a feature
C17_Witness ==
  /\ Parsed
  /\ error = EmptyError
  /\ ~parseGFF3(content).thrown
  /\ Len(parseGFF3(content).errors) = 1

\* the size of the loaded region, from the features themselves
RegionSize(data) ==
  LET ends == {data.features[j].end : j \in 1..Len(data.features)}
      starts == {data.features[j].start : j \in 1..Len(data.features)}
  IN  (CHOOSE e \in ends : \A x \in ends : x <= e)
        - (CHOOSE b \in starts : \A x \in starts : b <= x)

C19_EveryLineAccountedOnce ==
  (content # NoFile /\ ~IsEmptyString(content)) =>
    LET r == parseGFF3(content) IN
    ~r.thrown =>
      /\ \A i \in 1..Len(content) :
           IF IsBlank(content[i]) \/ IsComment(content[i])
           THEN ErrorsAt(r, i) = 0 /\ FeaturesAt(r, i) = 0
           ELSE ErrorsAt(r, i) + FeaturesAt(r, i) = 1
      /\ \A j \in 1..Len(r.features) : r.features[j].lineNumber \in 1..Len(content)
      /\ \A j \in 1..Len(r.errors) : r.errors[j].lineNumber \in 1..Len(content)
      /\ \A j \in 1..(Len(r.features) - 1) :
           r.features[j].lineNumber < r.features[j + 1].lineNumber
      /\ \A j \in 1..(Len(r.errors) - 1) :
           r.errors[j].lineNumber < r.errors[j + 1].lineNumber
      /\ r.stats.totalFeatures = Len(r.features)
      /\ r.stats.rootFeatures = Len(r.rootFeatures)
      /\ r.stats.errors = Len(r.errors)
      /\ (Parsed /\ genomicData # Null) => genomicData = r

\* C19's case: a stored result of a file with ignored lines, a line in
\* errors and a feature from a later line
C19_Witness ==
  /\ Parsed
  /\ genomicData # Null
  /\ \E i \in 1..Len(content) : IsBlank(content[i])
  /\ \E i \in 1..Len(content) : IsComment(content[i])
  /\ Len(genomicData.errors) = 1
  /\ Len(genomicData.features) = 1
  /\ genomicData.errors[1].lineNumber < genomicData.features[1].lineNumber
  /\ genomicData.features[1].lineNumber = Len(content)

\* two features share a coordinate
Overlapping(F, a, b) == ~(F[a].end < F[b].start \/ F[a].start > F[b].end)

IdsOf(F) == {Attr(F[i].attributes, "ID") : i \in 1..Len(F)} \ {<<>>}
LastWithId(F, id) ==
  CHOOSE i \in 1..Len(F) :
    /\ Attr(F[i].attributes, "ID") = id
    /\ \A j \in 1..Len(F) : Attr(F[j].attributes, "ID") = id => j <= i

\* C21: featureById maps every ID to the last feature, in file order, that
\* carries it; a duplicate ID is no error; and every feature whose Parent
\* is an ID of the file, on whatever line, is a child of the last feature
\* with that ID, once, and of no other feature.
C21_DuplicateIdLastWins ==
  (Parsed /\ genomicData # Null) =>
    LET F == genomicData.features IN
    /\ DOMAIN genomicData.featureById = IdsOf(F)
    /\ \A id \in IdsOf(F) : genomicData.featureById[id] = LastWithId(F, id)
    /\ genomicData.errors = <<>>
    /\ \A i \in 1..Len(F) :
         LET p == Attr(F[i].attributes, "Parent") IN
         (p # <<>> /\ p \in IdsOf(F)) =>
           /\ genomicData.parent[i] = LastWithId(F, p)
           /\ \A q \in 1..Len(F) :
                Occurrences(genomicData.children[q], i) =
                  IF q = LastWithId(F, p) THEN 1 ELSE 0
           /\ Occurrences(genomicData.rootFeatures, i) = 0
           /\ Occurrences(genomicData.warned, i) = 0

\* C21's case: two features carry an ID, and a feature on a line between
\* them is a child of the second
C21_Witness ==
  /\ Parsed
  /\ genomicData # Null
  /\ \E e, i, l \in 1..Len(genomicData.features) :
       /\ e < i /\ i < l
       /\ Attr(genomicData.features[e].attributes, "ID")
            = Attr(genomicData.features[l].attributes, "ID")
       /\ Attr(genomicData.features[i].attributes, "Parent")
            = Attr(genomicData.features[l].attributes, "ID")
       /\ genomicData.parent[i] = l
       /\ genomicData.children[l] = <<i>>
       /\ genomicData.children[e] = <<>>

\* the deferred redraws that are pending: the timer, and the frames that
\* timers have requested
PendingDeferred ==
  (IF zoomTimeout = NoTimer THEN 0 ELSE 1)
    + Cardinality({i \in 1..Len(frameQueue) : frameQueue[i].deferred})

\* C22 (as stated): at most one deferred redraw is pending at any time,
\* and a transform that arrives while one is pending leaves its firing
\* time as it is, so the deferred redraw fires no later than one interval
\* after the first transform that was deferred.
C22_DeferredKeepsFiringTime ==
  /\ [](PendingDeferred <= 1)
  /\ [][(zoomTimeout # NoTimer /\ zoomTimeout' # NoTimer)
          => zoomTimeout'.due = zoomTimeout.due]_vars

\* C23 (as stated): in every redraw no path and no rect is drawn for a
\* feature, root or child, that is less than one pixel wide on the scale
\* of the redraw.
C23_NothingDrawnBelowOnePixel ==
  scale # NoScale =>
    \A i \in 1..Len(genomicData.features) :
      Drawn(i) => AtLeastPixels(genomicData.features[i], scale.d0, scale.d1, 1, 1)

\* C24: layout and redraw leave the result of parseGFF3 as it was: after
\* organizeIntoTracks and any number of redraws, the features and
\* rootFeatures lists, every children list in its order, every parent,
\* the coordinates and the attributes are what parseGFF3 returned.
C24_ParseResultUnchanged ==
  (Parsed /\ genomicData # Null) => genomicData = parseGFF3(content)

\* a zoom redraw has run renderMRNA for an mRNA whose exon children stand
\* in the file against their start order
C24_Witness ==
  /\ Parsed /\ genomicData # Null
  /\ scale # NoScale /\ scale # xScaleOf(genomicData)
  /\ \E m \in 1..Len(genomicData.features) :
       /\ MRNARendered(m)
       /\ \E j, k \in 1..Len(genomicData.children[m]) :
            LET a == genomicData.children[m][j]
                b == genomicData.children[m][k]
            IN  /\ j < k
                /\ IsType(a, {"exon"}) /\ IsType(b, {"exon"})
                /\ genomicData.features[a].start > genomicData.features[b].start

\* the feature k steps up from feature i along parent, 0 past a root
RECURSIVE StepsUp(_, _)
StepsUp(i, k) ==
  IF k = 0 \/ i = 0 THEN i ELSE StepsUp(genomicData.parent[i], k - 1)

\* feature i is its own ancestor
OnCycle(i) == \E k \in 1..Len(genomicData.features) : StepsUp(i, k) = i

\* the features the redraw on screen came to
VisitedByRedraw == updateFeatures(genomicData, tracks, scale).visited

\* C25: every redraw terminates, and the descent from the root features
\* through children comes to no feature twice, also for files whose
\* Parent references name the feature itself or close a cycle.
C25_RedrawVisitsOnce ==
  scale # NoScale =>
    \A i \in 1..Len(genomicData.features) : Occurrences(VisitedByRedraw, i) <= 1

\* a file with a feature that is its own ancestor was drawn, and the
\* redraw went down from a root gene to a child
C25_Witness ==
  /\ scale # NoScale
  /\ \E i \in 1..Len(genomicData.features) : OnCycle(i)
  /\ \E i \in 1..Len(genomicData.features) :
       /\ Occurrences(VisitedByRedraw, i) = 1
       /\ ParentOf(i) # 0 /\ IsRoot(ParentOf(i))

\* feature i stands below feature f: f is reached from i along parent
Below(i, f) == \E k \in 1..Len(genomicData.features) : StepsUp(i, k) = f

\* C26 (as stated): getDescendants(f) returns, and what it returns holds
\* every feature below f exactly once and nothing else, f not among them.
C26_DescendantsOnceEach ==
  descendants # Null =>
    /\ ~descendants.result.thrown
    /\ \A i \in 1..Len(genomicData.features) :
         Occurrences(descendants.result.descendants, i) =
           (IF i # descendants.of /\ Below(i, descendants.of) THEN 1 ELSE 0)

\* the exon children of feature m
ExonsOf(m) ==
  {i \in 1..Len(genomicData.features) : ParentOf(i) = m /\ IsType(i, {"exon"})}

\* the primitives of a kind drawn for the exons of feature m
PrimsOf(m, kind) ==
  {k \in 1..Len(primitives) :
     primitives[k].kind = kind /\ primitives[k].feat \in ExonsOf(m)}

\* renderMRNA ran for feature m in the redraw on screen
RenderMRNARan(m) ==
  /\ IsType(m, {"mRNA"})
  /\ Occurrences(VisitedByRedraw, m) = 1
  /\ AtLeastPixels(genomicData.features[m], scale.d0, scale.d1, 1, 1)

\* every exon of feature m lies inside the window and is a pixel wide
ExonsAllVisible(m) ==
  /\ ExonsOf(m) # {}
  /\ \A e \in ExonsOf(m) :
       /\ genomicData.features[e].start >= scale.d0
       /\ genomicData.features[e].end <= scale.d1
       /\ AtLeastPixels(genomicData.features[e], scale.d0, scale.d1, 1, 1)

\* line k joins two exons of m that are neighbours in start order
JoinsNeighbours(m, k) ==
  LET a == primitives[k].feat
      b == primitives[k].to
      F == genomicData.features
  IN  /\ b \in ExonsOf(m) /\ a # b
      /\ F[a].start <= F[b].start
      /\ \A e \in ExonsOf(m) : ~(F[a].start < F[e].start /\ F[e].start < F[b].start)

\* C27: when renderMRNA runs for an mRNA whose k exon children all lie
\* inside the window and are each at least one pixel wide, the redraw has
\* exactly one block per exon and k - 1 intron lines, one between each two
\* exons that are neighbours in start order, whatever their order in the
\* file.
C27_BlocksAndIntronLines ==
  scale # NoScale =>
    \A m \in 1..Len(genomicData.features) :
      (RenderMRNARan(m) /\ ExonsAllVisible(m)) =>
        /\ \A e \in ExonsOf(m) :
             Cardinality({k \in PrimsOf(m, "exon") : primitives[k].feat = e}) = 1
        /\ Cardinality(PrimsOf(m, "intron")) = Cardinality(ExonsOf(m)) - 1
        /\ \A k \in PrimsOf(m, "intron") : JoinsNeighbours(m, k)
        /\ \A j, k \in PrimsOf(m, "intron") :
             j # k => /\ primitives[j].feat # primitives[k].feat
                      /\ primitives[j].to # primitives[k].to

\* renderMRNA has run for an mRNA with two exons, both inside the window
\* and a pixel wide, that stand in the file against their start order
C27_Witness ==
  /\ scale # NoScale
  /\ \E m \in 1..Len(genomicData.features) :
       /\ RenderMRNARan(m) /\ ExonsAllVisible(m)
       /\ \E a, b \in ExonsOf(m) :
            a < b /\ genomicData.features[a].start > genomicData.features[b].start

\* C28 (as stated): any two consecutive runs of the redraw that transform
\* events ask for are at least throttleInterval apart: an animation frame
\* runs one such redraw, and none has run in the 60 ms before it.
C28_RedrawsSixtyApart ==
  [][(frameQueue # <<>> /\ frameQueue' = <<>>) =>
       /\ Len(frameQueue) = 1
       /\ lastZoomRedraw = -1 \/ now - lastZoomRedraw >= throttleInterval]_vars

\* C29: input that goes on cannot starve the redraw: a transform event is
\* followed by a redraw before two throttle intervals have passed,
\* whatever events come after it and however close together they come.
C29_RedrawWithinTwoIntervals ==
  undrawnSince # -1 => now - undrawnSince < 2 * throttleInterval

\* redraws have run while the input went on: an event whose deferred
\* redraw later events have put off waits for longer than one interval
C29_Witness ==
  /\ lastZoomRedraw # -1
  /\ zoomTimeout # NoTimer
  /\ undrawnSince # -1 /\ now - undrawnSince > throttleInterval

\* C30 (as stated): whenever genomicData is not null, fileName is the name
\* of the file genomicData was parsed from, for every interleaving of
\* handleFileLoad calls, their callbacks and handleReset.
C30_FileNameOfData ==
  genomicData # Null =>
    \E f \in ShellFiles :
      f.name = fileName /\ genomicData = parseGFF3(f.content)
====
